---------------------------- MODULE Spec2Model ----------------------------
(***************************************************************************)
(* A model of the contract-program core of                                 *)
(* metaprogramming-for-contract-algorithms:                                *)
(*   src/src/classes/performance_profile.py  (PerformanceProfile)          *)
(*   src/src/classes/contract_program.py     (ContractProgram)             *)
(*                                                                         *)
(* Units.  The program computes with floats.  The model computes with      *)
(* exact numbers:                                                          *)
(*   - a time is an integer number of 0.025 s units, so STEP_SIZE (0.1 s)  *)
(*     is 4 and the default time_interval (1 s) is 40;                     *)
(*   - a quality sample is an integer number of hundredths, so the default *)
(*     quality_interval (.05) is 5;                                        *)
(*   - an average, a probability and an expected utility are exact         *)
(*     fractions <<n, d>> in lowest terms with d > 0.                      *)
(* The inputs are drawn so that every quotient time_switched / decay the   *)
(* loop computes is an integer (ExactSchedule).                            *)
(***************************************************************************)
EXTENDS Integers, Sequences, FiniteSets, TLC

(***************************************************************************)
(* Exact arithmetic.  The operations are functions, so that an argument is *)
(* a value when the body is evaluated.                                     *)
(***************************************************************************)
GCD[a \in Nat, b \in Nat] == IF b = 0 THEN a ELSE GCD[b, a % b]

\* The non-negative fractions <<n, d>>.
Fractions == Nat \X Nat

\* The fraction n / d (d > 0, n >= 0) in lowest terms.
RatOf[n \in Nat, d \in Nat] ==
    IF n = 0 THEN <<0, 1>> ELSE <<n \div GCD[n, d], d \div GCD[n, d]>>

Rat(n, d) == RatOf[n, d]

RatOfInt(n) == <<n, 1>>

\* a * b, cross-reduced first so that the products stay small.
RatProduct[a \in Fractions, b \in Fractions] ==
    IF a[1] = 0 \/ b[1] = 0 THEN <<0, 1>>
    ELSE <<(a[1] \div GCD[a[1], b[2]]) * (b[1] \div GCD[b[1], a[2]]),
           (a[2] \div GCD[b[1], a[2]]) * (b[2] \div GCD[a[1], b[2]])>>

RatMul(a, b) == RatProduct[a, b]

\* a + b over the least common denominator.
RatSum[a \in Fractions, b \in Fractions] ==
    RatOf[a[1] * (b[2] \div GCD[a[2], b[2]])
              + b[1] * (a[2] \div GCD[a[2], b[2]]),
          (a[2] \div GCD[a[2], b[2]]) * b[2]]

RatAdd(a, b) == RatSum[a, b]

\* a < b for non-negative fractions, by comparing integer parts and then the
\* reciprocals of the fractional parts (no product is formed).
RatBelow[a \in Fractions, b \in Fractions] ==
    IF a[1] \div a[2] # b[1] \div b[2] THEN a[1] \div a[2] < b[1] \div b[2]
    ELSE IF b[1] % b[2] = 0 THEN FALSE
    ELSE IF a[1] % a[2] = 0 THEN TRUE
    ELSE RatBelow[<<b[2], b[1] % b[2]>>, <<a[2], a[1] % a[2]>>]

RatLess(a, b) == RatBelow[a, b]

RatGreater(a, b) == RatLess(b, a)

\* Python's round(n / d): to the nearest integer, a tie to the even one.
RoundQuotient[n \in Int, d \in Nat] ==
    IF 2 * (n % d) < d THEN n \div d
    ELSE IF 2 * (n % d) > d THEN n \div d + 1
    ELSE IF (n \div d) % 2 = 0 THEN n \div d ELSE n \div d + 1

RoundHalfEven(n, d) == RoundQuotient[n, d]

SumOf[s \in Seq(Int)] == IF s = <<>> THEN 0 ELSE Head(s) + SumOf[Tail(s)]

SumSeq(s) == SumOf[s]

(***************************************************************************)
(* Results of calls that may raise                                         *)
(***************************************************************************)
Ok(v) == [err |-> "none", val |-> v]
Raised(e) == [err |-> e, val |-> <<>>]
IsOk(r) == r.err = "none"
\* F of the value of v.  (v is bound as the element of a set, so that it is
\* evaluated once however often F uses it.)
Let(v, F(_)) == CHOOSE result \in {F(x) : x \in {v}} : TRUE

\* The call r, and then F of what it returned unless it raised.
Then(r, F(_)) == Let(r, LAMBDA x : IF IsOk(x) THEN F(x.val) ELSE x)

(***************************************************************************)
(* Configuration of the profile store                                      *)
(***************************************************************************)
\* ContractProgram.STEP_SIZE = 0.1 s, the grid of the recorded time keys.
STEP_SIZE == 4
\* time_interval = 1 s (the constructor's default).
time_interval == 40
\* quality_interval = .05 (the constructor's default).
quality_interval == 5
\* One unit of the first decimal place of a time: "{:.1f}" and round(1).
TenthOfSecond == STEP_SIZE

(***************************************************************************)
(* The performance-profile file (populous.json).  The nested mapping       *)
(*   "node_<id>" -> "qualities" -> (one parent-quality key per parent)     *)
(*               -> time key -> sample list                                *)
(* is described by a record [curve, fault, last]:                          *)
(*   curve[id + 1]  the shape of node id's samples over the time keys,     *)
(*   last           the last recorded time key (in tenths of a second),    *)
(*   fault          what is wrong with the data, if anything.              *)
(* A parent-quality key is a number of hundredths ("0.55" is 55), a time   *)
(* key a number of tenths of a second ("1.3" is 13).                       *)
(***************************************************************************)
CurveNames == {"flat", "rise", "noisy"}
FaultNames == {"none", "null", "node", "quality", "empty"}

Min(a, b) == IF a < b THEN a ELSE b

\* The quality an instance reaches at time key k when its parents reached the
\* qualities of `path`: it grows with k and with each parent's quality, an
\* earlier parent weighing more.
RECURSIVE ParentBonus(_, _)
ParentBonus(path, i) ==
    IF i > Len(path) THEN 0
    ELSE path[i] \div (10 * i) + ParentBonus(path, i + 1)

InstanceQuality(k, pace, path) ==
    Min(100, (100 * k) \div (k + pace) + ParentBonus(path, 1))

\* dictionary["node_<id>"]["qualities"][path...][key]
SampleList(dictionary, id, path, key) ==
    LET curve == dictionary.curve[id + 1]
    IN  IF dictionary.fault = "empty" /\ key * STEP_SIZE < time_interval
            THEN <<>>
        ELSE IF curve = "flat" THEN <<50>>
        ELSE IF curve = "rise" THEN <<InstanceQuality(key, 10, path)>>
        ELSE <<InstanceQuality(key, 10, path), InstanceQuality(key, 30, path)>>

HasNode(dictionary, id) ==
    /\ id + 1 \in DOMAIN dictionary.curve
    /\ ~(dictionary.fault = "node" /\ id + 1 = Len(dictionary.curve))

HasQualityKey(dictionary, qkey) ==
    /\ qkey \in {quality_interval * i : i \in 0..(100 \div quality_interval)}
    /\ ~(dictionary.fault = "quality" /\ qkey > 50)

HasTimeKey(dictionary, key) == key \in 0..dictionary.last

(***************************************************************************)
(* PerformanceProfile                                                      *)
(***************************************************************************)
\* round_nearest(number, step) for a time: round(number / step) * step
round_nearest(number, step) == RoundHalfEven(number, step) * step

\* round_nearest for a quality n/d (hundredths): round(q / step) * step
round_nearest_quality(q, step) == RoundHalfEven(q[1], q[2] * step) * step

\* "{:.2f}".format(x): the nearest hundredth.
Format2f(x) == RoundHalfEven(x, 1)

\* "{:.1f}".format(t): the nearest tenth of a second.
Format1f(t) == RoundHalfEven(t, TenthOfSecond)

\* find_number_of_decimals(time_step_size) is 1 for 0.1: the unit of the last
\* decimal place kept by .round(num_decimals) is a tenth of a second.
find_number_of_decimals(number) == TenthOfSecond

\* average_quality: sum(qualities) / len(qualities)
average_quality(qualities) ==
    IF Len(qualities) = 0 THEN Raised("ZeroDivisionError")
    ELSE Ok(Rat(SumSeq(qualities), Len(qualities)))

\* The descent dictionary[...]["{:.2f}".format(round_nearest(pq))] for each
\* parent quality in turn: the path of keys, or KeyError.
ParentPath(dictionary, parent_qualities) ==
    LET path == [i \in 1..Len(parent_qualities) |->
                    Format2f(round_nearest_quality(parent_qualities[i],
                                                   quality_interval))]
    IN  IF \A i \in 1..Len(path) : HasQualityKey(dictionary, path[i])
        THEN Ok(path) ELSE Raised("KeyError")

\* np.arange(start_step, end_step, step): start, start + step, ... < end
Arange(start_step, end_step, step) ==
    [i \in 1..((end_step - start_step + step - 1) \div step) |->
        start_step + (i - 1) * step]

\* dictionary["{}".format(t)] for a t of the rounded np.arange
TimeEntry(dictionary, id, path, t) ==
    IF HasTimeKey(dictionary,
                  RoundHalfEven(t, find_number_of_decimals(STEP_SIZE)))
    THEN Ok(SampleList(dictionary, id, path,
                       RoundHalfEven(t, find_number_of_decimals(STEP_SIZE))))
    ELSE Raised("KeyError")

\* The loop "for t in ...: qualities += dictionary[...]" over the times ts:
\* gather[i, qualities] is its outcome from the i-th time on.
GatherQualities(dictionary, id, path, ts) ==
    LET gather[i \in Nat, qualities \in Seq(Int)] ==
            IF i > Len(ts) THEN Ok(qualities)
            ELSE Then(TimeEntry(dictionary, id, path, ts[i]),
                      LAMBDA entry : gather[i + 1, qualities \o entry])
    IN  gather[1, <<>>]

\* The interval [start_step, end_step) whose keys are read.
QueryInterval(self, time) ==
    IF time = self.time_limit
    THEN LET start_step == ((time - time_interval) \div time_interval)
                              * time_interval
         IN  <<start_step, start_step + time_interval>>
    ELSE LET start_step == (time \div time_interval) * time_interval
         IN  <<start_step, start_step + time_interval>>

query_quality_list_on_interval(self, time, id, parent_qualities) ==
    IF self.dictionary.fault = "null" THEN Raised("ValueError")
    ELSE IF ~HasNode(self.dictionary, id) THEN Raised("KeyError")
    ELSE Then(ParentPath(self.dictionary, parent_qualities),
              LAMBDA path :
    Let(QueryInterval(self, time), LAMBDA interval :
    Let(Arange(interval[1], interval[2], STEP_SIZE), LAMBDA ts :
        GatherQualities(self.dictionary, id, path, ts))))

query_probability_contract_expression(queried_quality, quality_list) ==
    LET start_quality == (queried_quality[1]
                            \div (queried_quality[2] * quality_interval))
                         * quality_interval
        end_quality == start_quality + quality_interval
        number_in_interval ==
            Cardinality({i \in 1..Len(quality_list) :
                            /\ start_quality <= quality_list[i]
                            /\ quality_list[i] < end_quality})
    IN  IF Len(quality_list) = 0 THEN Raised("ZeroDivisionError")
        ELSE Ok(Rat(number_in_interval, Len(quality_list)))

\* average_quality(dictionary["{:.1f}".format(estimated_time)])
EstimatedEntry(dictionary, id, path, key) ==
    IF HasTimeKey(dictionary, key)
    THEN average_quality(SampleList(dictionary, id, path, key))
    ELSE Raised("KeyError")

query_average_quality(self, id, time, parent_qualities) ==
    IF self.dictionary.fault = "null" THEN Raised("ValueError")
    ELSE IF ~HasNode(self.dictionary, id) THEN Raised("KeyError")
    ELSE Then(ParentPath(self.dictionary, parent_qualities),
              LAMBDA path :
                  EstimatedEntry(self.dictionary, id, path,
                      Format1f(round_nearest(time.time, time_interval))))

(***************************************************************************)
(* ContractProgram: the evaluation engine                                  *)
(*                                                                         *)
(* self is the record of the object's fields:                              *)
(*   dictionary, time_limit, budget, dag, allocations, scale, decimals.    *)
(* dag is [order, nodes]; a node is [id, parents], parents being the ids   *)
(* of the Node objects it refers to, in order.  An allocation vector is a  *)
(* sequence of TimeAllocation records [time, node_id]; Python's position p *)
(* is the model's position p + 1.                                         *)
(***************************************************************************)
\* The Node object a parent reference points to.
NodeOf(dag, id) ==
    CHOOSE node \in {dag.nodes[i] : i \in 1..Len(dag.nodes)} : node.id = id

RECURSIVE FindNodeFrom(_, _, _)
FindNodeFrom(dag, node_id, i) ==
    IF i > Len(dag.nodes) THEN Raised("IndexError")
    ELSE IF dag.nodes[i].id = node_id THEN Ok(dag.nodes[i])
    ELSE FindNodeFrom(dag, node_id, i + 1)

find_node(self, node_id) == FindNodeFrom(self.dag, node_id, 1)

\* The quality of the last node only.
RootUtility(qualities) ==
    IF qualities = <<>> THEN RatOfInt(0) ELSE qualities[Len(qualities)]

\* global_utility: sum(qualities)
RECURSIVE global_utility(_)
global_utility(qualities) ==
    IF qualities = <<>> THEN RatOfInt(0)
    ELSE RatAdd(Head(qualities), global_utility(Tail(qualities)))

\* What find_parent_qualities returns: a list of qualities or one quality.
AsList(qs) == [type |-> "list", v |-> qs]
AsFloat(q) == [type |-> "float", v |-> q]

RECURSIVE find_parent_qualities(_, _, _, _)
RECURSIVE CollectParentQualities(_, _, _, _, _, _)
\* The loop "for parent in node.parents" from its i-th parent on, appending
\* to the list parent_qualities (qualities, so far) what each recursive call
\* returns; the first exception ends it.
CollectParentQualities(self, node, time_allocations, depth, i, qualities) ==
    IF i > Len(node.parents) THEN Ok(qualities)
    ELSE Then(find_parent_qualities(self, NodeOf(self.dag, node.parents[i]),
                                    time_allocations, depth),
              LAMBDA quality :
                  CollectParentQualities(self, node, time_allocations, depth,
                                         i + 1, Append(qualities, quality.v)))

\* The query made with the time of the first allocation of the vector.
QueriedQualityAtFirst(self, node, time_allocations, parent_qualities) ==
    Then(query_average_quality(self, node.id, time_allocations[1],
                               parent_qualities),
         LAMBDA quality : Ok(AsFloat(quality)))

\* "quality = self.query_average_quality(...); return quality"
QueriedQuality(self, node, time_allocations, parent_qualities) ==
    Then(query_average_quality(self, node.id, time_allocations[node.id + 1],
                               parent_qualities),
         LAMBDA quality : Ok(AsFloat(quality)))

\* depth0 is the argument; "depth += 1" makes it depth0 + 1.
find_parent_qualities(self, node, time_allocations, depth0) ==
    IF node.parents # <<>>
    THEN Then(CollectParentQualities(self, node, time_allocations, depth0 + 1,
                                     1, <<>>),
              LAMBDA parent_qualities :
                  IF depth0 + 1 = 1 THEN Ok(AsList(parent_qualities))
                  ELSE QueriedQuality(self, node, time_allocations,
                                      parent_qualities))
    ELSE IF depth0 + 1 = 1 THEN Ok(AsList(<<>>))
    ELSE QueriedQuality(self, node, time_allocations, <<>>)

\* One pass of the body of "for (id, time) in enumerate(time_allocations)":
\* the new <<probability, average_qualities>>, or the exception raised.
EvaluateNode(self, time_allocations, id, probability, average_qualities) ==
    Then(find_node(self, id), LAMBDA node :
    Then(find_parent_qualities(self, node, time_allocations, 0),
         LAMBDA parent_qualities :
    Then(query_quality_list_on_interval(self, time_allocations[id + 1].time,
                                        id, parent_qualities.v),
         LAMBDA qualities :
    Then(average_quality(qualities), LAMBDA average :
    Then(query_probability_contract_expression(average, qualities),
         LAMBDA p :
             Ok(<<RatMul(probability, p),
                  Append(average_qualities, average)>>))))))

RECURSIVE EvaluateFrom(_, _, _, _, _)
EvaluateFrom(self, time_allocations, id, probability, average_qualities) ==
    IF id >= Len(time_allocations)
    THEN Ok(RatMul(probability, global_utility(average_qualities)))
    ELSE Then(EvaluateNode(self, time_allocations, id, probability,
                           average_qualities),
              LAMBDA step :
                  EvaluateFrom(self, time_allocations, id + 1,
                               step[1], step[2]))

\* probability = 1; average_qualities = []; the loop; the product.
global_expected_utility(self, time_allocations) ==
    Let(time_allocations, LAMBDA allocations :
        EvaluateFrom(self, allocations, 0, RatOfInt(1), <<>>))

(***************************************************************************)
(* ContractProgram: construction                                           *)
(***************************************************************************)
\* uniform_budget: budget / order for every node id in range(0, order)
uniform_budget(budget, dag) ==
    [i \in 1..dag.order |-> [time |-> budget \div dag.order, node_id |-> i - 1]]

\* __init__: PerformanceProfile.__init__ with time_limit = budget, then the
\* fields of the contract program.
NewContractProgram(dictionary, dag, budget, scale, decimals) ==
    [dictionary |-> dictionary,
     time_limit |-> budget,
     budget |-> budget,
     dag |-> dag,
     allocations |-> uniform_budget(budget, dag),
     scale |-> scale,
     decimals |-> decimals]

(***************************************************************************)
(* ContractProgram.naive_hill_climbing as a state machine                  *)
(*                                                                         *)
(* A run is [self, frame, out]: the object, the locals of the call and     *)
(* the line printed last.  frame.pc is "while" at the test of the while    *)
(* loop, "for" inside the for loop over the permutations (frame.perm is    *)
(* the position of the next one), "returned" after the return and          *)
(* "raised" when an exception left the call.  frame.pool is the list the   *)
(* permutations were taken from, frame.evaluated the vector handed last    *)
(* to global_expected_utility as the candidate.                            *)
(***************************************************************************)
\* itertools.permutations(pool, 2): every ordered pair of two positions, in
\* the order of the first and then of the second position.
permutations(pool) ==
    LET n == Len(pool)
    IN  [k \in 1..(n * (n - 1)) |->
            LET i == (k - 1) \div (n - 1)
                r == (k - 1) % (n - 1)
                j == IF r < i THEN r ELSE r + 1
            IN  <<pool[i + 1], pool[j + 1]>>]

\* The call's locals before the while loop.
NewFrame(self, decay, threshold, verbose) ==
    [decay |-> decay,
     threshold |-> threshold,
     verbose |-> verbose,
     time_switched |-> self.budget \div self.dag.order,
     possible_local_max |-> <<>>,
     pool |-> <<>>,
     perm |-> 1,
     adjusted_allocations |-> <<>>,
     evaluated |-> <<>>,
     pc |-> "while",
     error |-> "none"]

\* The exchange without lines 149-150: the time taken is given to no node.
ExchangeWithoutGiving(allocations, permutation, time_switched) ==
    [allocations EXCEPT ![permutation[1].node_id + 1].time = @ - time_switched]

\* adjusted_allocations after lines 147-150: time_switched moved from the
\* first to the second allocation of the permutation.
Exchange(allocations, permutation, time_switched) ==
    LET from == permutation[1].node_id + 1
        to == permutation[2].node_id + 1
        taken == [allocations EXCEPT ![from].time = @ - time_switched]
    IN  [taken EXCEPT ![to].time = @ + time_switched]

\* A comparison the wrong way round.
Worsens(eu_adjusted, eu_current) == RatLess(eu_adjusted, eu_current)

\* A comparison that is not strict.
ImprovesOrEqual(eu_adjusted, eu_current) == ~RatLess(eu_adjusted, eu_current)

\* The test of line 151 on the two expected utilities.
Improves(eu_adjusted, eu_current) == RatGreater(eu_adjusted, eu_current)

RECURSIVE Pow10(_)
Pow10(k) == IF k = 0 THEN 1 ELSE 10 * Pow10(k - 1)

\* round(x, decimals) of the fraction x.
RoundTo(x, decimals) ==
    Rat(RoundHalfEven(x[1] * Pow10(decimals), x[2]), Pow10(decimals))

\* Lines 155-170: what print writes for a candidate, in seconds and in
\* quality units (a time is t/40 s, an expected utility n/(100 d)).
PrintedLine(self, time_switched, adjusted_allocations, eu_adjusted, eu_current) ==
    LET seconds(t) == Rat(t, time_interval)
        scaled(eu) == RatMul(Rat(eu[1], eu[2] * 100), RatOfInt(self.scale))
        shown(x) == IF self.decimals # <<>>
                    THEN RoundTo(x, self.decimals[1]) ELSE x
    IN  [temp_time_switched |-> shown(seconds(time_switched)),
         eu_adjusted |-> shown(scaled(eu_adjusted)),
         eu_original |-> shown(scaled(eu_current)),
         print_allocations |->
             [i \in 1..Len(adjusted_allocations) |->
                 shown(seconds(adjusted_allocations[i].time))]]

\* "while time_switched > threshold" holds: a round begins.
CanBeginRound(r) ==
    r.frame.pc = "while" /\ r.frame.time_switched > r.frame.threshold

BeginRoundStep(r) ==
    [r EXCEPT !.frame.possible_local_max = <<>>,
              !.frame.pool = r.self.allocations,
              !.frame.perm = 1,
              !.frame.pc = "for"]

\* The while test fails: return self.allocations.
CanReturn(r) ==
    r.frame.pc = "while" /\ ~(r.frame.time_switched > r.frame.threshold)

ReturnStep(r) == [r EXCEPT !.frame.pc = "returned"]

HasPermutation(r) ==
    r.frame.pc = "for" /\ r.frame.perm <= Len(permutations(r.frame.pool))

Permutation(r) == permutations(r.frame.pool)[r.frame.perm]

\* Line 138: the permutation pairs an allocation with itself.
SameNode(r) == Permutation(r)[1].node_id = Permutation(r)[2].node_id

\* The test of line 144 made on the allocation that receives the time.
ReceiverWouldBeNegative(r) ==
    r.self.allocations[Permutation(r)[2].node_id + 1].time
        - r.frame.time_switched < 0

\* Line 144: the exchange would leave a negative time.
WouldBeNegative(r) ==
    r.self.allocations[Permutation(r)[1].node_id + 1].time
        - r.frame.time_switched < 0

Candidate(r) ==
    Exchange(r.self.allocations, Permutation(r), r.frame.time_switched)

\* The two calls of line 151, the left one first: both expected utilities,
\* or the first exception.
Utilities(r) ==
    Then(global_expected_utility(r.self, Candidate(r)), LAMBDA eu_adjusted :
    Then(global_expected_utility(r.self, r.self.allocations),
         LAMBDA eu_current : Ok(<<eu_adjusted, eu_current>>)))

\* One of the two "continue" statements is taken.
CanSkip(r) == HasPermutation(r) /\ (SameNode(r) \/ WouldBeNegative(r))

SkipStep(r) ==
    [r EXCEPT !.frame.perm = @ + 1,
              !.frame.adjusted_allocations =
                  IF SameNode(r) THEN @ ELSE r.self.allocations]

\* Neither "continue" is taken: the candidate is built and evaluated.
Attempts(r) == HasPermutation(r) /\ ~SameNode(r) /\ ~WouldBeNegative(r)

\* The candidate is built and both evaluations return.
CanEvaluate(r) == Attempts(r) /\ IsOk(Utilities(r))

\* Lines 151-170 with the test of line 151 made on the two numbers that are
\* printed (scaled and rounded).
ComparedAsPrinted(r, adjusted_allocations, eu_adjusted, eu_current) ==
    Let(PrintedLine(r.self, r.frame.time_switched, adjusted_allocations,
                    eu_adjusted, eu_current),
        LAMBDA line :
            [r EXCEPT !.frame.perm = @ + 1,
                      !.frame.adjusted_allocations = adjusted_allocations,
                      !.frame.evaluated = adjusted_allocations,
                      !.frame.possible_local_max =
                          IF Improves(line.eu_adjusted, line.eu_original)
                          THEN Append(@, adjusted_allocations) ELSE @,
                      !.out = IF r.frame.verbose THEN <<line>> ELSE @])

\* Lines 151-170 for the candidate and the two expected utilities.
Compared(r, adjusted_allocations, eu_adjusted, eu_current) ==
    [r EXCEPT !.frame.perm = @ + 1,
              !.frame.adjusted_allocations = adjusted_allocations,
              !.frame.evaluated = adjusted_allocations,
              !.frame.possible_local_max =
                  IF Improves(eu_adjusted, eu_current)
                  THEN Append(@, adjusted_allocations) ELSE @,
              !.out =
                  IF r.frame.verbose
                  THEN <<PrintedLine(r.self, r.frame.time_switched,
                                     adjusted_allocations,
                                     eu_adjusted, eu_current)>>
                  ELSE @]

EvaluateStep(r) ==
    Then(Utilities(r),
         LAMBDA utilities :
             Compared(r, Candidate(r), utilities[1], utilities[2]))

\* The candidate is built and an evaluation raises: nothing catches it.
CanRaise(r) == Attempts(r) /\ ~IsOk(Utilities(r))

\* The exception is caught and the candidate skipped.
SkipFailedStep(r) ==
    [r EXCEPT !.frame.perm = @ + 1,
              !.frame.adjusted_allocations = Candidate(r),
              !.frame.evaluated = Candidate(r)]

RaiseStep(r) ==
    [r EXCEPT !.frame.adjusted_allocations = Candidate(r),
              !.frame.evaluated = Candidate(r),
              !.frame.error = Utilities(r).err,
              !.frame.pc = "raised"]

\* max([self.global_expected_utility(j) for j in possible_local_max])
\* Python's max of a non-empty list of fractions.
MaxOf[utilities \in Seq(Fractions)] ==
    IF Len(utilities) = 1 THEN utilities[1]
    ELSE Let(MaxOf[Tail(utilities)],
             LAMBDA rest : IF RatLess(utilities[1], rest) THEN rest
                           ELSE utilities[1])

MaxUtility(self, candidates) ==
    MaxOf[[j \in 1..Len(candidates) |->
              global_expected_utility(self, candidates[j]).val]]

\* The loop of lines 175-178 with a break after the first assignment.
RECURSIVE AssignFirstBest(_, _, _, _)
AssignFirstBest(self, candidates, best_allocation, allocations) ==
    IF candidates = <<>> THEN allocations
    ELSE IF global_expected_utility(self, Head(candidates)).val = best_allocation
    THEN Head(candidates)
    ELSE AssignFirstBest(self, Tail(candidates), best_allocation, allocations)

\* Lines 175-178: every candidate whose utility equals the maximum is
\* assigned in turn, so the last of them stays.
RECURSIVE AssignBest(_, _, _, _)
AssignBest(self, candidates, best_allocation, allocations) ==
    IF candidates = <<>> THEN allocations
    ELSE AssignBest(self, Tail(candidates), best_allocation,
            IF global_expected_utility(self, Head(candidates)).val
                   = best_allocation
            THEN Head(candidates) ELSE allocations)

\* The for loop is over and possible_local_max is not empty.
CanArgMax(r) ==
    /\ r.frame.pc = "for"
    /\ ~HasPermutation(r)
    /\ r.frame.possible_local_max # <<>>

\* The step size is divided after an improving round too.
ArgMaxAndCoolStep(r) ==
    [r EXCEPT !.self.allocations =
                  Let(MaxUtility(r.self, r.frame.possible_local_max),
                      LAMBDA best_allocation :
                          AssignBest(r.self, r.frame.possible_local_max,
                                     best_allocation, r.self.allocations)),
              !.frame.time_switched = @ \div r.frame.decay,
              !.frame.pc = "while"]

ArgMaxStep(r) ==
    [r EXCEPT !.self.allocations =
                  Let(MaxUtility(r.self, r.frame.possible_local_max),
                      LAMBDA best_allocation :
                          AssignBest(r.self, r.frame.possible_local_max,
                                     best_allocation, r.self.allocations)),
              !.frame.pc = "while"]

\* The for loop is over and possible_local_max is empty.
CanCool(r) ==
    /\ r.frame.pc = "for"
    /\ ~HasPermutation(r)
    /\ r.frame.possible_local_max = <<>>

CoolStep(r) ==
    [r EXCEPT !.frame.time_switched = @ \div r.frame.decay,
              !.frame.pc = "while"]

\* The next step of a run, whichever it is; a finished run stays.
StepOf(r) ==
    IF CanBeginRound(r) THEN BeginRoundStep(r)
    ELSE IF CanReturn(r) THEN ReturnStep(r)
    ELSE IF CanSkip(r) THEN SkipStep(r)
    ELSE IF CanEvaluate(r) THEN EvaluateStep(r)
    ELSE IF CanRaise(r) THEN RaiseStep(r)
    ELSE IF CanArgMax(r) THEN ArgMaxStep(r)
    ELSE IF CanCool(r) THEN CoolStep(r)
    ELSE r

(***************************************************************************)
(* The inputs                                                              *)
(***************************************************************************)
\* The budget is a whole number of seconds per node, at most MaxShare.
MaxShare == 2
\* decay is an integer in 2..MaxDecay.
MaxDecay == 2
\* threshold is (budget / order) / decay^j for a j in 0..MaxCoolings.
MaxCoolings == 2
\* scale is in 1..MaxScale, decimals is None or in 0..MaxDecimals.
MaxScale == 2
MaxDecimals == 1

Leaf(id) == [id |-> id, parents |-> <<>>]
Inner(id, parents) == [id |-> id, parents |-> parents]

\* One leaf feeding one root.
PairDag == [order |-> 2, nodes |-> <<Leaf(0), Inner(1, <<0>>)>>]
\* Two leaves feeding one root; the node list is not in id order.
JoinDag == [order |-> 3, nodes |-> <<Inner(2, <<0, 1>>), Leaf(0), Leaf(1)>>]
\* A chain 0 -> 1 -> 2 in which node 0 is a parent of node 2 as well.
SharedDag ==
    [order |-> 3, nodes |-> <<Leaf(0), Inner(1, <<0>>), Inner(2, <<1, 0>>)>>]

Dags == {PairDag, JoinDag, SharedDag}

RECURSIVE Pow(_, _)
Pow(b, k) == IF k = 0 THEN 1 ELSE b * Pow(b, k - 1)

\* The profile files tried for a budget: the well-formed ones, whose last
\* time key is the time limit, with every choice of curves; the faulty ones;
\* and one that stops a step short of the limit (as np.arange(0, limit, step)
\* does).
Dictionaries(dag, budget) ==
    {[curve |-> c, fault |-> "none", last |-> budget \div STEP_SIZE] :
        c \in [1..dag.order -> CurveNames]}
    \cup {[curve |-> [i \in 1..dag.order |-> "rise"], fault |-> f,
           last |-> budget \div STEP_SIZE] : f \in FaultNames}
    \cup {[curve |-> [i \in 1..dag.order |-> "rise"], fault |-> "none",
           last |-> budget \div STEP_SIZE - 1]}

Decimals == {<<>>} \cup {<<k>> : k \in 0..MaxDecimals}

\* The arguments of the constructor and of naive_hill_climbing.
Inputs ==
    {[dag |-> dag, budget |-> dag.order * share * time_interval,
      decay |-> decay, coolings |-> j] :
        dag \in Dags, share \in 1..MaxShare, decay \in 2..MaxDecay,
        j \in 0..MaxCoolings}

\* Every quotient of the cooling schedule above the threshold is exact.
ExactSchedule(in) == (in.budget \div in.dag.order) % Pow(in.decay, in.coolings) = 0

Threshold(in) == (in.budget \div in.dag.order) \div Pow(in.decay, in.coolings)

NewRun(in, dictionary, scale, decimals, verbose) ==
    LET self == NewContractProgram(dictionary, in.dag, in.budget, scale, decimals)
    IN  [self |-> self,
         frame |-> NewFrame(self, in.decay, Threshold(in), verbose),
         out |-> <<>>]

(***************************************************************************)
(* The state: the run, and a second run of the same call that may differ   *)
(* in scale, decimals and verbose only.                                    *)
(***************************************************************************)
VARIABLES self, frame, out, twin

vars == <<self, frame, out, twin>>

Run == [self |-> self, frame |-> frame, out |-> out]

\* Both runs start with the same scale, decimals and verbose.
Init ==
    \E in \in Inputs :
      \E dictionary \in Dictionaries(in.dag, in.budget) :
        \E verbose \in BOOLEAN :
          LET r == NewRun(in, dictionary, 1, <<>>, verbose)
          IN  /\ ExactSchedule(in)
              /\ verbose = (in.dag = PairDag)
              /\ self = r.self
              /\ frame = r.frame
              /\ out = r.out
              /\ twin = r

\* The second run starts with any scale, decimals and verbose; the first
\* with the defaults (scale 1, decimals None, verbose False).
InitTwin ==
    \E in \in Inputs :
      \E dictionary \in Dictionaries(in.dag, in.budget) :
        \E scale \in 1..MaxScale, decimals \in Decimals, verbose \in BOOLEAN :
          LET r == NewRun(in, dictionary, 1, <<>>, FALSE)
          IN  /\ ExactSchedule(in)
              /\ in.dag = PairDag
              /\ self = r.self
              /\ frame = r.frame
              /\ out = r.out
              /\ twin = NewRun(in, dictionary, scale, decimals, verbose)

\* The run takes the step r; the second run takes its own next step, which is
\* r too when the two runs are in the same state.
Advance(r) ==
    \E next \in {r} :
        /\ self' = next.self
        /\ frame' = next.frame
        /\ out' = next.out
        /\ twin' = IF twin = Run THEN next ELSE StepOf(twin)

BeginRound == CanBeginRound(Run) /\ Advance(BeginRoundStep(Run))

Return == CanReturn(Run) /\ Advance(ReturnStep(Run))

Skip == CanSkip(Run) /\ Advance(SkipStep(Run))

\* Both calls of line 151 return: EvaluateStep, from their two values.
Evaluate ==
    /\ Attempts(Run)
    /\ \E utilities \in {Utilities(Run)} :
          /\ IsOk(utilities)
          /\ Advance(Compared(Run, Candidate(Run),
                              utilities.val[1], utilities.val[2]))

Raise == CanRaise(Run) /\ Advance(RaiseStep(Run))

ArgMax == CanArgMax(Run) /\ Advance(ArgMaxStep(Run))

Cool == CanCool(Run) /\ Advance(CoolStep(Run))

Next ==
    \/ BeginRound
    \/ Return
    \/ Skip
    \/ Evaluate
    \/ Raise
    \/ ArgMax
    \/ Cool

Spec == Init /\ [][Next]_vars

\* The call is sequential code: it takes its next step whenever it has one.
FairSpec == Init /\ [][Next]_vars /\ WF_vars(Next)

SpecTwin == InitTwin /\ [][Next]_vars

(***************************************************************************)
(* Properties                                                              *)
(***************************************************************************)
UniformAllocations == uniform_budget(self.budget, self.dag)

\* The expected utility of the current best allocation.
CurrentUtility == global_expected_utility(self, self.allocations)

NonNegative(allocations) ==
    \A i \in 1..Len(allocations) : allocations[i].time >= 0

\* The for loop of the round is over.
RoundEnds == frame.pc = "for" /\ ~HasPermutation(Run)

\* Some exchange of the round (of the current step size, leaving no
\* negative time) has a greater expected utility than the current best.
SomeCandidateImproves ==
    \E k \in 1..Len(permutations(self.allocations)) :
        Let(permutations(self.allocations)[k], LAMBDA permutation :
            /\ self.allocations[permutation[1].node_id + 1].time
                   - frame.time_switched >= 0
            /\ RatLess(CurrentUtility.val,
                       global_expected_utility(
                           self, Exchange(self.allocations, permutation,
                                          frame.time_switched)).val))

\* C1: the expected utility of the current best allocation never decreases:
\* in every step of naive_hill_climbing from a state where it is defined, it
\* is defined afterwards and is greater than or equal to what it was.
C1_UtilityNeverDecreases ==
    [][IsOk(CurrentUtility) =>
          /\ IsOk(CurrentUtility')
          /\ ~RatLess(CurrentUtility'.val, CurrentUtility.val)]_vars

\* A round has replaced the current best by a strictly better allocation.
C1_Witness ==
    /\ frame.pc = "while"
    /\ self.allocations # UniformAllocations
    /\ IsOk(CurrentUtility)
    /\ RatLess(global_expected_utility(self, UniformAllocations).val,
               CurrentUtility.val)

\* C2: naive_hill_climbing terminates: every run that no exception leaves
\* reaches the return statement, with a step size at or below the threshold.
C2_Terminates ==
    <>(\/ frame.pc = "raised"
       \/ frame.pc = "returned" /\ frame.time_switched <= frame.threshold)

\* The call has returned after at least one improving round and at least one
\* cooling.
C2_Witness ==
    /\ frame.pc = "returned"
    /\ self.allocations # UniformAllocations
    /\ frame.time_switched < self.budget \div self.dag.order

\* C3 as claimed: at the end of a round with improving candidates the
\* current best becomes the first candidate, in the order of the
\* permutations, whose expected utility is the maximum of the list.
C3_FirstMaximumChosen ==
    [][(RoundEnds /\ frame.possible_local_max # <<>>) =>
          LET best == MaxUtility(self, frame.possible_local_max)
              first == CHOOSE k \in DOMAIN frame.possible_local_max :
                          /\ global_expected_utility(
                                 self, frame.possible_local_max[k]).val = best
                          /\ \A h \in 1..(k - 1) :
                                global_expected_utility(
                                    self, frame.possible_local_max[h]).val
                                    # best
          IN  self'.allocations = frame.possible_local_max[first]]_vars

\* C3 as amended: the current best becomes a candidate of the list whose
\* expected utility is the maximum, and among several of them the one met
\* last in the order of the permutations.
C3_LastMaximumChosen ==
    [][(RoundEnds /\ frame.possible_local_max # <<>>) =>
          \E k \in DOMAIN frame.possible_local_max :
              /\ self'.allocations = frame.possible_local_max[k]
              /\ \A h \in DOMAIN frame.possible_local_max :
                    /\ ~RatLess(global_expected_utility(
                                    self, frame.possible_local_max[k]).val,
                                global_expected_utility(
                                    self, frame.possible_local_max[h]).val)
                    /\ (h > k =>
                          RatLess(global_expected_utility(
                                      self, frame.possible_local_max[h]).val,
                                  global_expected_utility(
                                      self, frame.possible_local_max[k]).val))]_vars

\* A round ends with two different candidates sharing the maximum.
C3_Witness ==
    /\ RoundEnds
    /\ \E h, k \in DOMAIN frame.possible_local_max :
          /\ h < k
          /\ frame.possible_local_max[h] # frame.possible_local_max[k]
          /\ global_expected_utility(self, frame.possible_local_max[h]).val
                = MaxUtility(self, frame.possible_local_max)
          /\ global_expected_utility(self, frame.possible_local_max[k]).val
                = MaxUtility(self, frame.possible_local_max)

\* C4: no allocation with a negative time is handed to
\* global_expected_utility, kept in the list of improving candidates or held
\* as current best.
C4_NoNegativeAllocation ==
    /\ NonNegative(self.allocations)
    /\ NonNegative(frame.evaluated)
    /\ \A k \in DOMAIN frame.possible_local_max :
          NonNegative(frame.possible_local_max[k])

\* A permutation has just been skipped because the exchange would have left
\* a negative time: the deep copy was made and left as it was.
C4_Witness ==
    /\ frame.pc = "for"
    /\ frame.perm > 1
    /\ frame.adjusted_allocations = self.allocations
    /\ \E i \in 1..Len(self.allocations) :
          self.allocations[i].time - frame.time_switched < 0

\* The samples recorded for node id under the keys first..last, in order.
RECURSIVE RecordedSamples(_, _, _, _, _)
RecordedSamples(dictionary, id, path, first, last) ==
    IF first > last THEN <<>>
    ELSE SampleList(dictionary, id, path, first)
             \o RecordedSamples(dictionary, id, path, first + 1, last)

\* The parent qualities global_expected_utility hands on for node id.
ParentQualitiesOf(id, time_allocations) ==
    find_parent_qualities(self, find_node(self, id).val, time_allocations, 0)

\* The sample list global_expected_utility queries for node id.
SamplesOf(id, time_allocations) ==
    query_quality_list_on_interval(
        self, time_allocations[id + 1].time, id,
        ParentQualitiesOf(id, time_allocations).val.v)

\* C5: when the candidate evaluated last gives a node the whole time limit,
\* the samples queried for that node are those of the last full interval
\* closed at the limit: the samples of every time key from limit - interval
\* to the limit itself, the key of the limit included when it is recorded.
C5_ClosedAtLimit ==
    \A id \in 0..(Len(frame.evaluated) - 1) :
        (/\ frame.evaluated[id + 1].time = self.time_limit
         /\ HasTimeKey(self.dictionary, self.time_limit \div STEP_SIZE)
         /\ IsOk(ParentQualitiesOf(id, frame.evaluated))
         /\ IsOk(SamplesOf(id, frame.evaluated)))
        => SamplesOf(id, frame.evaluated).val
               = RecordedSamples(
                     self.dictionary, id,
                     ParentPath(self.dictionary,
                                ParentQualitiesOf(id, frame.evaluated).val.v).val,
                     (self.time_limit - time_interval) \div STEP_SIZE,
                     self.time_limit \div STEP_SIZE)

\* C6: the two runs, which differ in scale, decimals and verbose only, are
\* at the same point with the same current best allocation, the same step
\* size and the same list of improving candidates after every step, and so
\* return the same allocation.
C6_SameDecisions ==
    /\ twin.self.allocations = self.allocations
    /\ twin.frame.time_switched = frame.time_switched
    /\ twin.frame.possible_local_max = frame.possible_local_max
    /\ twin.frame.perm = frame.perm
    /\ twin.frame.pc = frame.pc

\* Both runs have returned after an improving round and a cooling; they
\* differ in scale, decimals and verbose and printed different lines.
C6_Witness ==
    /\ frame.pc = "returned"
    /\ twin.frame.pc = "returned"
    /\ self.allocations # UniformAllocations
    /\ frame.time_switched < self.budget \div self.dag.order
    /\ twin.self.scale # self.scale
    /\ twin.self.decimals # self.decimals
    /\ twin.frame.verbose # frame.verbose
    /\ twin.out # out

\* The allocation vectors the state holds for evaluation.
HeldAllocations == {self.allocations} \cup ({frame.evaluated} \ {<<>>})

\* The average of node id's samples, and the share of them in its band.
AverageOf(id, time_allocations) ==
    average_quality(SamplesOf(id, time_allocations).val).val

ProbabilityOf(id, time_allocations) ==
    query_probability_contract_expression(
        AverageOf(id, time_allocations),
        SamplesOf(id, time_allocations).val).val

\* Every node of the vector has parent qualities and a non-empty sample list.
AllNodesDefined(time_allocations) ==
    \A id \in 0..(Len(time_allocations) - 1) :
        /\ IsOk(ParentQualitiesOf(id, time_allocations))
        /\ IsOk(SamplesOf(id, time_allocations))
        /\ SamplesOf(id, time_allocations).val # <<>>

\* The product of the nodes' probabilities times the sum of their averages.
ProductTimesSum(time_allocations) ==
    LET product[k \in 0..Len(time_allocations)] ==
            IF k = 0 THEN RatOfInt(1)
            ELSE RatMul(ProbabilityOf(k - 1, time_allocations), product[k - 1])
        sum[k \in 0..Len(time_allocations)] ==
            IF k = 0 THEN RatOfInt(0)
            ELSE RatAdd(sum[k - 1], AverageOf(k - 1, time_allocations))
    IN  RatMul(sum[Len(time_allocations)], product[Len(time_allocations)])

\* C7: for the current best allocation and for the candidate evaluated
\* last, global_expected_utility is the product over every node of the
\* probability of its average among its samples, times the sum over every
\* node of its average, whenever every node has a non-empty sample list (and
\* it raises otherwise).
C7_ProductTimesSum ==
    \A time_allocations \in HeldAllocations :
        IF AllNodesDefined(time_allocations)
        THEN global_expected_utility(self, time_allocations)
                 = Ok(ProductTimesSum(time_allocations))
        ELSE ~IsOk(global_expected_utility(self, time_allocations))

\* A candidate was evaluated in which the nodes' averages differ and some
\* probability is below 1, and its expected utility is not zero.
C7_Witness ==
    /\ frame.evaluated # <<>>
    /\ AllNodesDefined(frame.evaluated)
    /\ \E i, j \in 0..(Len(frame.evaluated) - 1) :
          /\ AverageOf(i, frame.evaluated) # AverageOf(j, frame.evaluated)
          /\ ProbabilityOf(i, frame.evaluated) # RatOfInt(1)
    /\ global_expected_utility(self, frame.evaluated).val # RatOfInt(0)

\* C8: find_parent_qualities at depth 0 returns, for every node of the DAG,
\* a list (never a float) with one quality per direct parent in parent order:
\* what query_average_quality gives for that parent at the parent's own time
\* and the parent's own depth-0 list.
C8_ListOfParentQualities ==
    \A time_allocations \in HeldAllocations :
      \A i \in 1..Len(self.dag.nodes) :
        LET node == self.dag.nodes[i]
            result == find_parent_qualities(self, node, time_allocations, 0)
        IN  IsOk(result) =>
              /\ result.val.type = "list"
              /\ Len(result.val.v) = Len(node.parents)
              /\ \A p \in 1..Len(node.parents) :
                    result.val.v[p] =
                        query_average_quality(
                            self, node.parents[p],
                            time_allocations[node.parents[p] + 1],
                            ParentQualitiesOf(node.parents[p],
                                              time_allocations).val.v).val

\* A candidate was evaluated in which a node has two parents of different
\* qualities, one of them with a parent of its own, at three different times.
C8_Witness ==
    /\ frame.evaluated # <<>>
    /\ \E i \in 1..Len(self.dag.nodes) :
          LET node == self.dag.nodes[i]
              result == find_parent_qualities(self, node, frame.evaluated, 0)
          IN  /\ Len(node.parents) = 2
              /\ NodeOf(self.dag, node.parents[1]).parents # <<>>
              /\ IsOk(result)
              /\ result.val.v[1] # result.val.v[2]
              /\ frame.evaluated[node.parents[1] + 1].time
                    # frame.evaluated[node.parents[2] + 1].time
              /\ frame.evaluated[node.id + 1].time
                    # frame.evaluated[node.parents[1] + 1].time

\* C9: a round changes exactly one of the two: when some candidate strictly
\* improved on the current best, its last step replaces the current best
\* and leaves the step size; when none did, it divides the step size by decay
\* and leaves the current best.  No other step changes either, so the step
\* size never grows and is always (budget / order) / decay^k for some k.
C9_OneOfTwoChanges ==
    [][/\ (RoundEnds /\ SomeCandidateImproves) =>
              /\ self'.allocations # self.allocations
              /\ frame'.time_switched = frame.time_switched
       /\ (RoundEnds /\ ~SomeCandidateImproves) =>
              /\ self'.allocations = self.allocations
              /\ frame'.time_switched # frame.time_switched
              /\ frame'.time_switched * frame.decay = frame.time_switched
       /\ ~RoundEnds =>
              /\ self'.allocations = self.allocations
              /\ frame'.time_switched = frame.time_switched
       /\ frame'.time_switched <= frame.time_switched
       /\ \E k \in 0..MaxCoolings :
              frame'.time_switched * Pow(frame.decay, k)
                  = self.budget \div self.dag.order]_vars

\* The call has returned after a round that replaced the current best at a
\* step size already divided once, and a later round that divided it again.
C9_Witness ==
    /\ frame.pc = "returned"
    /\ frame.time_switched * frame.decay * frame.decay
           = self.budget \div self.dag.order
    /\ \E i \in 1..Len(self.allocations) :
           self.allocations[i].time % (frame.time_switched * frame.decay * frame.decay) # 0

\* An evaluation of line 151 is due and one of its two calls raises.
EvaluationFails ==
    /\ Attempts(Run)
    /\ \/ ~IsOk(global_expected_utility(self, Candidate(Run)))
       \/ ~IsOk(CurrentUtility)

\* The exception a faulty profile file raises when it is met.
FaultError ==
    [null |-> {"ValueError"}, node |-> {"KeyError"}, quality |-> {"KeyError"},
     empty |-> {"ZeroDivisionError"}, none |-> {"none", "KeyError"}]

\* C10: when an evaluation fails, the step taken is the exception leaving
\* naive_hill_climbing: the candidate is not skipped, nothing is returned,
\* the exception is the one the fault raises, and the current best
\* allocation is the one the round started with.  After that no step is
\* taken, and no exception leaves the call in any other way.
C10_FailurePropagates ==
    [][/\ frame.pc # "raised"
       /\ EvaluationFails =>
              /\ frame'.pc = "raised"
              /\ frame'.error \in FaultError[self.dictionary.fault] \ {"none"}
              /\ frame'.perm = frame.perm
              /\ frame'.possible_local_max = frame.possible_local_max
              /\ self'.allocations = self.allocations
              /\ self'.allocations = frame.pool
       /\ frame'.pc = "raised" => EvaluationFails]_vars

\* An exception left the call after a round that replaced the current best.
C10_Witness ==
    /\ frame.pc = "raised"
    /\ frame.error = "KeyError"
    /\ self.allocations # UniformAllocations
    /\ self.allocations = frame.pool

\* The allocation vectors of the state: the current best, the copy being
\* adjusted, the candidate evaluated last and the improving candidates.
AllVectors ==
    ({self.allocations, frame.adjusted_allocations, frame.evaluated}
        \cup {frame.possible_local_max[k] :
                 k \in DOMAIN frame.possible_local_max})
    \ {<<>>}

TotalTime(allocations) ==
    SumSeq([i \in 1..Len(allocations) |-> allocations[i].time])

\* C11: every candidate and every current best allocation has the total time
\* of the initial uniform allocation, which is the budget; no node's time is
\* above the budget (the time limit); and position i of the vector holds the
\* entry of node id i, one entry per node of the DAG.
C11_TotalTimeKept ==
    \A allocations \in AllVectors :
        /\ TotalTime(allocations) = TotalTime(UniformAllocations)
        /\ TotalTime(allocations) = self.budget
        /\ Len(allocations) = self.dag.order
        /\ \A i \in 1..Len(allocations) :
              /\ allocations[i].time <= self.budget
              /\ allocations[i].time <= self.time_limit
              /\ allocations[i].node_id = i - 1

\* The call has returned, after rounds that replaced the current best and
\* rounds that divided the step size, an allocation that gives one node the
\* whole budget; candidates were evaluated on the way.
C11_Witness ==
    /\ frame.pc = "returned"
    /\ self.allocations # UniformAllocations
    /\ frame.time_switched < self.budget \div self.dag.order
    /\ frame.evaluated # <<>>
    /\ \E i \in 1..Len(self.allocations) :
          self.allocations[i].time = self.budget

=============================================================================
